---- MODULE Spec2Model ----
(***************************************************************************)
(* A model of libscm (src/libscm/libscm.py): tokenizer, reader, atom       *)
(* classifier, environment chain, evaluator, recovery hook, printer and    *)
(* the interactive driver.                                                 *)
(*                                                                         *)
(* Representation.  A Python str is a sequence of one-character strings,   *)
(* so that tokenize, atom and to_string work on characters as the code     *)
(* does.  A Python value is a record tagged by its field k:                *)
(*   [k |-> "int",  v |-> n]                       int                     *)
(*   [k |-> "float", cls, neg, m, e]               float (see FltV)         *)
(*   [k |-> "str",  s |-> chars]                   str (= Symbol)          *)
(*   [k |-> "list", items |-> <<values>>]          list                    *)
(*   [k |-> "bool", v |-> b]                       bool                    *)
(*   [k |-> "none"]                                None                    *)
(*   [k |-> "builtin", n |-> name]                 a procedure of          *)
(*                                                 add_globals             *)
(*   [k |-> "closure", vars, exp, env]             the lambda of line 99   *)
(***************************************************************************)
EXTENDS Integers, Sequences, FiniteSets, TLC

----------------------------------------------------------------------------
(* Values *)

None == [k |-> "none"]

IntV(n) == [k |-> "int", v |-> n]

StrV(s) == [k |-> "str", s |-> s]

ListV(items) == [k |-> "list", items |-> items]

BoolV(b) == [k |-> "bool", v |-> b]

Builtin(n) == [k |-> "builtin", n |-> n]

Closure(vars, exp, env) == [k |-> "closure", vars |-> vars, exp |-> exp, env |-> env]

\* A float: cls is "fin", "inf" or "nan"; a finite float is
\* (-1)^neg * m * 10^e with m carrying no trailing zero (m = 0 has e = 0).
FltV(cls, neg, m, e) == [k |-> "float", cls |-> cls, neg |-> neg, m |-> m, e |-> e]

\* isa(x, Symbol), isa(x, list)
IsSymbol(x) == x.k = "str"

IsList(x) == x.k = "list"

----------------------------------------------------------------------------
(* Characters *)

Digits == <<"0", "1", "2", "3", "4", "5", "6", "7", "8", "9">>

IsDigit(c) == \E i \in 1..10 : Digits[i] = c

DigitVal(c) == (CHOOSE i \in 1..10 : Digits[i] = c) - 1

\* str.split() with no argument splits on runs of whitespace
IsSpace(c) == c \in {" ", "\t", "\n"}

RECURSIVE Replace(_, _, _)
\* s.replace(c, r) for a one-character c: every c becomes r, half by half
Replace(s, c, r) ==
    IF Len(s) = 0 THEN <<>>
    ELSE IF Len(s) = 1 THEN (IF s[1] = c THEN r ELSE s)
    ELSE Replace(SubSeq(s, 1, Len(s) \div 2), c, r)
         \o Replace(SubSeq(s, (Len(s) \div 2) + 1, Len(s)), c, r)

\* The least index from i on at which s holds (or, for sp false, does not
\* hold) a whitespace character; Len(s) + 1 when there is none
Scan(s, i, sp) ==
    IF \E j \in i..Len(s) : IsSpace(s[j]) = sp
    THEN CHOOSE j \in i..Len(s) :
            /\ IsSpace(s[j]) = sp
            /\ \A h \in i..(j - 1) : IsSpace(s[h]) # sp
    ELSE Len(s) + 1

RECURSIVE SplitFrom(_, _)
\* s.split() from index i on: the maximal runs of non-whitespace characters
SplitFrom(s, i) ==
    LET start == Scan(s, i, FALSE)
        end   == Scan(s, start, TRUE)
    IN  IF start > Len(s) THEN <<>>
        ELSE <<SubSeq(s, start, end - 1)>> \o SplitFrom(s, end)

Split(s) == SplitFrom(s, 1)

\* tokenize (line 117): pad the parentheses with spaces, then split
tokenize(s) ==
    Split(Replace(Replace(s, "(", <<" ", "(", " ">>), ")", <<" ", ")", " ">>))

----------------------------------------------------------------------------
(* Atom classifier (lines 141-149) *)

\* The digits of a Python numeric literal: digits, single underscores between
IsDigitPart(b) ==
    /\ b # <<>>
    /\ IsDigit(b[1])
    /\ IsDigit(b[Len(b)])
    /\ \A i \in 1..Len(b) : IsDigit(b[i]) \/ b[i] = "_"
    /\ \A i \in 1..(Len(b) - 1) : ~(b[i] = "_" /\ b[i + 1] = "_")

RECURSIVE DigitsValue(_, _)
\* The number a digit part denotes, acc the value of the digits read so far
DigitsValue(b, acc) ==
    IF b = <<>> THEN acc
    ELSE IF Head(b) = "_" THEN DigitsValue(Tail(b), acc)
         ELSE DigitsValue(Tail(b), 10 * acc + DigitVal(Head(b)))

RECURSIVE CountDigits(_)
CountDigits(b) ==
    IF b = <<>> THEN 0
    ELSE (IF Head(b) = "_" THEN 0 ELSE 1) + CountDigits(Tail(b))

HasSign(t) == t # <<>> /\ Head(t) \in {"+", "-"}

Unsigned(t) == IF HasSign(t) THEN Tail(t) ELSE t

IsNeg(t) == t # <<>> /\ Head(t) = "-"

\* int(token) succeeds: an optional sign and a digit part
IsIntTok(t) == IsDigitPart(Unsigned(t))

IntOfTok(t) ==
    IF IsNeg(t) THEN 0 - DigitsValue(Unsigned(t), 0) ELSE DigitsValue(Unsigned(t), 0)

\* The first index of character c in t, 0 when there is none
IndexOf(t, c) ==
    IF \E i \in 1..Len(t) : t[i] = c
    THEN CHOOSE i \in 1..Len(t) : t[i] = c /\ \A j \in 1..(i - 1) : t[j] # c
    ELSE 0

\* The mantissa and the exponent text of an unsigned float literal
MantText(b) == IF IndexOf(b, "e") = 0 THEN b ELSE SubSeq(b, 1, IndexOf(b, "e") - 1)

ExpText(b) == IF IndexOf(b, "e") = 0 THEN <<>> ELSE SubSeq(b, IndexOf(b, "e") + 1, Len(b))

IntPart(mt) == IF IndexOf(mt, ".") = 0 THEN mt ELSE SubSeq(mt, 1, IndexOf(mt, ".") - 1)

FracPart(mt) == IF IndexOf(mt, ".") = 0 THEN <<>> ELSE SubSeq(mt, IndexOf(mt, ".") + 1, Len(mt))

\* float(token) succeeds on a number: [digits][.[digits]][e[sign]digits],
\* with a digit before the exponent (lower case; the texts of this model
\* hold no upper-case letter)
IsFloatNumber(b) ==
    LET mt == MantText(b)
        ip == IntPart(mt)
        fp == FracPart(mt)
    IN  /\ ip # <<>> \/ fp # <<>>
        /\ ip = <<>> \/ IsDigitPart(ip)
        /\ fp = <<>> \/ IsDigitPart(fp)
        /\ IndexOf(b, "e") # 0 => IsDigitPart(Unsigned(ExpText(b)))

InfText == {<<"i", "n", "f">>, <<"i", "n", "f", "i", "n", "i", "t", "y">>}

NanText == <<"n", "a", "n">>

IsFloatTok(t) ==
    \/ Unsigned(t) \in InfText
    \/ Unsigned(t) = NanText
    \/ IsFloatNumber(Unsigned(t))

RECURSIVE FltNorm(_, _, _)
\* The finite float (-1)^neg * m * 10^e, m without a trailing zero
FltNorm(neg, m, e) ==
    IF m = 0 THEN FltV("fin", neg, 0, 0)
    ELSE IF m % 10 = 0 THEN FltNorm(neg, m \div 10, e + 1)
         ELSE FltV("fin", neg, m, e)

RECURSIVE Pow10(_)
Pow10(n) == IF n <= 0 THEN 1 ELSE 10 * Pow10(n - 1)

FloatOfTok(t) ==
    LET b  == Unsigned(t)
        mt == MantText(b)
        ip == IntPart(mt)
        fp == FracPart(mt)
        ex == IF IndexOf(b, "e") = 0 THEN 0 ELSE IntOfTok(ExpText(b))
    IN  IF b \in InfText THEN FltV("inf", IsNeg(t), 0, 0)
        ELSE IF b = NanText THEN FltV("nan", IsNeg(t), 0, 0)
        ELSE FltNorm(IsNeg(t),
                     DigitsValue(ip, 0) * Pow10(CountDigits(fp)) + DigitsValue(fp, 0),
                     ex - CountDigits(fp))

\* atom (line 141): int, else float, else Symbol
atom(token) ==
    IF IsIntTok(token) THEN IntV(IntOfTok(token))
    ELSE IF IsFloatTok(token) THEN FloatOfTok(token)
    ELSE StrV(token)

----------------------------------------------------------------------------
(* Reader (lines 124-138) *)

\* What a call of read_expr leaves: the exception it raised ("none" when it
\* returned), the value it returned, and the token list as the call left it
\* (read_expr pops from the caller's list).
ReadResult(exc, val, rest) == [exc |-> exc, val |-> val, rest |-> rest]

\* A reader that leaves the closing parenthesis in the token list
PopClose_Forgotten(tokens) == tokens

\* tokens.pop(0) of line 133, which takes the ')' off
PopClose(tokens) == Tail(tokens)

RECURSIVE read_expr(_), ReadList(_, _)
\* read_expr (line 124)
read_expr(tokens) ==
    IF Len(tokens) = 0 THEN ReadResult("SyntaxError", None, tokens)
    ELSE LET token == Head(tokens) IN
         IF token = <<"(">> THEN ReadList(Tail(tokens), <<>>)
         ELSE IF token = <<")">> THEN ReadResult("SyntaxError", None, Tail(tokens))
         ELSE ReadResult("none", atom(token), Tail(tokens))

\* The loop of lines 131-134: tokens[0] of an empty list is an IndexError
ReadList(tokens, L) ==
    IF Len(tokens) = 0 THEN ReadResult("IndexError", None, tokens)
    ELSE IF Head(tokens) # <<")">>
         THEN LET r == read_expr(tokens) IN
              IF r.exc # "none" THEN r ELSE ReadList(r.rest, Append(L, r.val))
         ELSE ReadResult("none", ListV(L), PopClose(tokens))

\* parse (line 112)
parse(s) == read_expr(tokenize(s))

----------------------------------------------------------------------------
(* Printer (lines 152-155) *)

RECURSIVE NatStr(_)
\* The decimal digits of a natural number
NatStr(n) ==
    IF n < 10 THEN <<Digits[n + 1]>> ELSE Append(NatStr(n \div 10), Digits[(n % 10) + 1])

RECURSIVE Zeros(_)
Zeros(n) == IF n <= 0 THEN <<>> ELSE <<"0">> \o Zeros(n - 1)

\* repr of a finite float with digits d and decimal point after decpt of them
FloatRepr(d, decpt) ==
    IF decpt > 16 \/ decpt < -3
    THEN <<d[1]>> \o (IF Len(d) > 1 THEN <<".">> \o Tail(d) ELSE <<>>) \o <<"e">>
         \o (IF decpt - 1 < 0 THEN <<"-">> ELSE <<"+">>)
         \o (LET x == IF decpt - 1 < 0 THEN 1 - decpt ELSE decpt - 1
             IN  IF x < 10 THEN <<"0">> \o NatStr(x) ELSE NatStr(x))
    ELSE IF decpt <= 0 THEN <<"0", ".">> \o Zeros(0 - decpt) \o d
    ELSE IF decpt >= Len(d) THEN d \o Zeros(decpt - Len(d)) \o <<".", "0">>
    ELSE SubSeq(d, 1, decpt) \o <<".">> \o SubSeq(d, decpt + 1, Len(d))

\* A str that leaves out the sign of a number
PyStr_Unsigned(x) ==
    IF x.k = "int" THEN NatStr(IF x.v < 0 THEN 0 - x.v ELSE x.v) ELSE x.s

\* str(exp) for a value that is not a list
PyStr(x) ==
    CASE x.k = "int"   -> IF x.v < 0 THEN <<"-">> \o NatStr(0 - x.v) ELSE NatStr(x.v)
      [] x.k = "str"   -> x.s
      [] x.k = "float" ->
            (IF x.neg /\ x.cls # "nan" THEN <<"-">> ELSE <<>>) \o
            (CASE x.cls = "inf" -> <<"i", "n", "f">>
               [] x.cls = "nan" -> <<"n", "a", "n">>
               [] OTHER -> IF x.m = 0 THEN <<"0", ".", "0">>
                           ELSE FloatRepr(NatStr(x.m), Len(NatStr(x.m)) + x.e))
      [] x.k = "bool"  -> IF x.v THEN <<"T", "r", "u", "e">> ELSE <<"F", "a", "l", "s", "e">>
      [] x.k = "none"  -> <<"N", "o", "n", "e">>
      \* a function prints as <function ...>; its name and address are left out
      [] OTHER -> <<"<", "f", "u", "n", "c", "t", "i", "o", "n", ">">>

RECURSIVE to_string(_), JoinStrings(_)
\* ' '.join(map(to_string, items))
JoinStrings(items) ==
    IF items = <<>> THEN <<>>
    ELSE IF Len(items) = 1 THEN to_string(items[1])
    ELSE to_string(Head(items)) \o <<" ">> \o JoinStrings(Tail(items))

\* to_string (line 152)
to_string(exp) ==
    IF IsList(exp) THEN <<"(">> \o JoinStrings(exp.items) \o <<")">> ELSE PyStr(exp)

----------------------------------------------------------------------------
(* Bounds *)

\* The lines main reads before the input ends
MaxLines == 2

\* The calls the host makes before it starts main
MaxHostCalls == 1

\* The length of the texts the reader is given
MaxTextLen == 5

\* The depth of the Python call stack at which a call raises RecursionError
\* (sys.getrecursionlimit(), scaled down)
MaxDepth == 12

\* The atoms and lists of the expression trees the printer is given
MaxTreeSize == 4

----------------------------------------------------------------------------
(* State *)

VARIABLES
    pc,       \* where the host and main are: "host" (main not yet called),
              \* "input" (line 162), "loop" (line 168), "eval" (line 172),
              \* "exited" (main returned), "crashed" (an exception left main)
    line,     \* the line main read last (its s)
    tokens,   \* main's token list
    stack,    \* the activations of eval and Env.find under main, innermost last
    ret,      \* the value the last finished call returned
    err,      \* the exception that was raised, NoErr when none was
    frames,   \* the Env objects, frames[1] being global_env
    out,      \* the lines main printed
    hooked,   \* the arguments the recovery hook was called with
    nlines,   \* the lines main has read
    ncalls    \* the calls the host has made

vars == <<pc, line, tokens, stack, ret, err, frames, out, hooked, nlines, ncalls>>

NoErr == [kind |-> "none", arg |-> None]

Exc(kind, arg) == [kind |-> kind, arg |-> arg]

\* A reference to the Env object frames[id]
EnvRef(id) == [k |-> "env", id |-> id]

\* The Env global_env (line 65)
global_env == 1

----------------------------------------------------------------------------
(* Environments (lines 11-35) *)

EmptyDict == [key \in {} |-> None]

\* d[key] = val
SetItem(d, key, val) == [x \in (DOMAIN d) \cup {key} |-> IF x = key THEN val ELSE d[x]]

\* A key of a dict must be hashable: a list is not
Hashable(x) == ~IsList(x)

\* The elements iterating over a value yields: a list's items, a str's
\* characters; other values of this model are not iterable
Iterable(x) == x.k \in {"list", "str"}

Elements(x) == IF x.k = "list" THEN x.items ELSE [i \in 1..Len(x.s) |-> StrV(<<x.s[i]>>)]

Min(a, b) == IF a < b THEN a ELSE b

RECURSIVE UpdatePairs(_, _, _, _)
\* self.update(list(zip(parms, args))) from pair i on (line 14): zip stops at
\* the shorter of the two, a later pair overwrites an earlier one
UpdatePairs(d, parms, args, i) ==
    IF i > Min(Len(parms), Len(args)) THEN d
    ELSE UpdatePairs(SetItem(d, parms[i], args[i]), parms, args, i + 1)

\* Env.__init__ (line 13): the new Env object
Env(parms, args, outer) ==
    [vars |-> UpdatePairs(EmptyDict, parms, args, 1), outer |-> outer, err_handler |-> "none"]

\* The keys Env.__init__ inserts
ZippedKeys(parms, args) == {parms[i] : i \in 1..Min(Len(parms), Len(args))}

\* The truth value of self.outer (line 25): None is false, and an Env, being
\* a dict, is false when it holds no key
OuterTruthy(fr, self) == fr[self].outer # 0 /\ DOMAIN fr[fr[self].outer].vars # {}

\* var in self (line 22)
VarIn(fr, self, var) == var \in DOMAIN fr[self].vars

\* Env.set_err_handler (line 34)
Env_set_err_handler(fr, self, func) == [fr EXCEPT ![self].err_handler = func]

----------------------------------------------------------------------------
(* Built-in library (lines 38-56) *)

Name(s) == StrV(s)

Plus == Name(<<"+">>)

\* The procedures of add_globals this model installs; the rest of the
\* library (the math module, the other operators) is left out, so no text of
\* the model names them
Builtins ==
    {<<Name(<<"+">>), Builtin("add")>>,
     <<Name(<<"c", "a", "r">>), Builtin("car")>>,
     <<Name(<<"c", "d", "r">>), Builtin("cdr")>>,
     <<Name(<<"l", "i", "s", "t">>), Builtin("list")>>,
     <<Name(<<"l", "e", "n", "g", "t", "h">>), Builtin("length")>>,
     <<Name(<<"n", "u", "l", "l", "?">>), Builtin("null?")>>}

\* add_globals (line 38) applied to Env()
add_globals ==
    [vars |-> [key \in {b[1] : b \in Builtins} |->
                  (CHOOSE b \in Builtins : b[1] = key)[2]],
     outer |-> 0, err_handler |-> "none"]

\* The result of a call: a value or an exception
Val(v) == [exc |-> NoErr, val |-> v]

Raises(kind, arg) == [exc |-> Exc(kind, arg), val |-> None]

\* int(x) of a bool or int operand of an arithmetic operator
AsInt(x) == IF x.k = "bool" THEN (IF x.v THEN 1 ELSE 0) ELSE x.v

IsIntLike(x) == x.k \in {"int", "bool"}

\* The built-in procedures called with the argument list args.  Operands
\* are ints, bools, strs and lists: no text of this model yields a float.
ApplyBuiltin(n, args) ==
    CASE n = "add" ->          \* op.add (line 46)
            IF Len(args) # 2 THEN Raises("TypeError", None)
            ELSE IF IsIntLike(args[1]) /\ IsIntLike(args[2])
                 THEN Val(IntV(AsInt(args[1]) + AsInt(args[2])))
            ELSE IF IsList(args[1]) /\ IsList(args[2])
                 THEN Val(ListV(args[1].items \o args[2].items))
            ELSE IF IsSymbol(args[1]) /\ IsSymbol(args[2])
                 THEN Val(StrV(args[1].s \o args[2].s))
            ELSE Raises("TypeError", None)
      [] n = "car" ->          \* lambda x: x[0] (line 50)
            IF Len(args) # 1 THEN Raises("TypeError", None)
            ELSE IF ~Iterable(args[1]) THEN Raises("TypeError", None)
            ELSE IF Len(Elements(args[1])) = 0 THEN Raises("IndexError", None)
            ELSE Val(Elements(args[1])[1])
      [] n = "cdr" ->          \* lambda x: x[1:] (line 51)
            IF Len(args) # 1 THEN Raises("TypeError", None)
            ELSE IF IsList(args[1]) THEN Val(ListV(SubSeq(args[1].items, 2, Len(args[1].items))))
            ELSE IF IsSymbol(args[1]) THEN Val(StrV(SubSeq(args[1].s, 2, Len(args[1].s))))
            ELSE Raises("TypeError", None)
      [] n = "list" ->         \* lambda *x: list(x) (line 52)
            Val(ListV(args))
      [] n = "length" ->       \* len (line 48)
            IF Len(args) # 1 THEN Raises("TypeError", None)
            ELSE IF ~Iterable(args[1]) THEN Raises("TypeError", None)
            ELSE Val(IntV(Len(Elements(args[1]))))
      [] n = "null?" ->        \* lambda x: x == [] (line 54)
            IF Len(args) # 1 THEN Raises("TypeError", None)
            ELSE Val(BoolV(args[1] = ListV(<<>>)))

----------------------------------------------------------------------------
(* The Python call stack *)

\* An activation of eval(x, env) (line 79): pc is the place it has reached,
\* i the index of the element of x being evaluated, vals the values it holds
EvalCall(x, env) == [fn |-> "eval", pc |-> "start", x |-> x, env |-> env, i |-> 0, vals |-> <<>>]

\* An activation of self.find(var) (line 18)
FindCall(self, var) == [fn |-> "find", pc |-> "loop", x |-> var, env |-> self, i |-> 0, vals |-> <<>>]

\* What a step leaves: the stack, the returned value, the exception raised,
\* the Env objects and the hook's calls
Machine(st, r, e, fr, hk) == [stack |-> st, ret |-> r, err |-> e, frames |-> fr, hooked |-> hk]

Top(st) == st[Len(st)]

Pop(st) == SubSeq(st, 1, Len(st) - 1)

\* The innermost activation replaced by act
SetTop(st, act) == Append(Pop(st), act)

\* raise: no code of the repository catches an exception of eval or find, so
\* it unwinds every activation
Raise(m, kind, arg) == Machine(<<>>, m.ret, Exc(kind, arg), m.frames, m.hooked)

\* return v from the innermost activation
Return(m, v) == Machine(Pop(m.stack), v, m.err, m.frames, m.hooked)

\* The innermost activation moves to act and calls callee; a call at the
\* recursion limit raises RecursionError
Call(m, act, callee) ==
    IF Len(m.stack) >= MaxDepth THEN Raise(m, "RecursionError", None)
    ELSE Machine(Append(SetTop(m.stack, act), callee), m.ret, m.err, m.frames, m.hooked)

\* The innermost activation moves to act
Goto(m, act) == Machine(SetTop(m.stack, act), m.ret, m.err, m.frames, m.hooked)

----------------------------------------------------------------------------
(* Recovery hooks *)

\* The value the binding hook gives a missing variable
HookValue == IntV(42)

\* An add_global_var that leaves var as the only global binding
add_global_var_Only(fr, var, val) ==
    [fr EXCEPT ![global_env].vars = SetItem(EmptyDict, var, val)]

\* add_global_var (line 69)
add_global_var(fr, var, val) ==
    [fr EXCEPT ![global_env].vars = SetItem(fr[global_env].vars, var, val)]

\* set_err_handler (line 73)
set_err_handler(fr, func) == Env_set_err_handler(fr, global_env, func)

\* The functions a host installs with set_err_handler:
\*   "handle_it"  handle_it (line 59), which raises UnboundError(var)
\*   "bind"       lambda var: add_global_var(var, HookValue)
\*   "noop"       lambda var: None
Hooks == {"handle_it", "bind", "noop"}

\* self.err_handler(var) (line 29): the machine after the hook's call
CallHook(m, func, var) ==
    LET hk == Append(m.hooked, var) IN
    CASE func = "handle_it" -> Raise(Machine(m.stack, m.ret, m.err, m.frames, hk), "UnboundError", var)
      [] func = "bind" -> Machine(m.stack, m.ret, m.err, add_global_var(m.frames, var, HookValue), hk)
      [] OTHER -> Machine(m.stack, m.ret, m.err, m.frames, hk)

----------------------------------------------------------------------------
(* Env.find (lines 18-32) *)

\* A raise that does not name the variable
UnboundRaise_NoName(m, var) == Raise(m, "UnboundError", None)

\* raise UnboundError(var) (line 32)
UnboundRaise(m, var) == Raise(m, "UnboundError", var)

\* One step of the innermost activation, a find
find(m) ==
    LET a    == Top(m.stack)
        self == a.env
        var  == a.x
    IN
    CASE a.pc = "loop" ->
            IF ~Hashable(var) THEN Raise(m, "TypeError", None)
            ELSE IF VarIn(m.frames, self, var)                      \* line 22
                 THEN Return(m, EnvRef(self))                        \* line 23
            ELSE IF OuterTruthy(m.frames, self)                      \* line 25
                 THEN Call(m, [a EXCEPT !.pc = "outer"],
                           FindCall(m.frames[self].outer, var))       \* line 26
            ELSE IF m.frames[self].err_handler # "none"              \* line 28
                 THEN LET h == CallHook(m, m.frames[self].err_handler, var)  \* line 29
                      IN  IF h.err # NoErr THEN h
                          ELSE Call(h, [a EXCEPT !.pc = "retry"], FindCall(self, var))  \* line 30
            ELSE UnboundRaise(m, var)                                \* line 32
         \* self.outer.find(var) has returned: its value is dropped and the
         \* loop of line 21 goes round again
      [] a.pc = "outer" -> Goto(m, [a EXCEPT !.pc = "loop"])
         \* self.find(var) has returned: likewise
      [] a.pc = "retry" -> Goto(m, [a EXCEPT !.pc = "loop"])

----------------------------------------------------------------------------
(* Evaluator (lines 79-107) *)

Quote == Name(<<"q", "u", "o", "t", "e">>)

If == Name(<<"i", "f">>)

SetBang == Name(<<"s", "e", "t", "!">>)

Define == Name(<<"d", "e", "f", "i", "n", "e">>)

Lambda == Name(<<"l", "a", "m", "b", "d", "a">>)

Begin == Name(<<"b", "e", "g", "i", "n">>)

\* A test that every value passes
Truthy_Always(v) == TRUE

\* The truth value of a Python value
Truthy(v) ==
    CASE v.k = "int"   -> v.v # 0
      [] v.k = "bool"  -> v.v
      [] v.k = "float" -> ~(v.cls = "fin" /\ v.m = 0)
      [] v.k = "str"   -> v.s # <<>>
      [] v.k = "list"  -> v.items # <<>>
      [] v.k = "none"  -> FALSE
      [] OTHER -> TRUE

\* An assignment that writes to the global frame whatever frame was found
Assign_Global(fr, owner, var, val) ==
    [fr EXCEPT ![global_env].vars = SetItem(fr[global_env].vars, var, val)]

\* env.find(var)[var] = val (line 93), the frame found being owner
Assign(fr, owner, var, val) == [fr EXCEPT ![owner].vars = SetItem(fr[owner].vars, var, val)]

\* A define that binds in the global frame instead of the current one
DefineIn_Global(fr, env, var, val) ==
    [fr EXCEPT ![global_env].vars = SetItem(fr[global_env].vars, var, val)]

\* env[var] = val (line 96)
DefineIn(fr, env, var, val) == [fr EXCEPT ![env].vars = SetItem(fr[env].vars, var, val)]

\* The elements of an application taken from the last to the first
ElementAt_Reversed(x, i) == x.items[Len(x.items) + 1 - i]

\* The i-th expression the comprehension of line 105 evaluates: `for exp in
\* x` goes through x from its first element to its last
ElementAt(x, i) == x.items[i]

\* A begin that evaluates its first expression whatever the turn
BeginExp_First(x, i) == x.items[2]

\* The expression the loop of line 101 evaluates at its turn i - 1: `for exp
\* in x[1:]` goes through the elements after the keyword in order
BeginExp(x, i) == x.items[i]

\* proc(*args) (line 107) for the lambda of line 99: Env(vars, args, env) is
\* created and the body is evaluated in it
CallClosure(m, a, proc, args) ==
    IF ~Iterable(proc.vars) THEN Raise(m, "TypeError", None)
    ELSE IF \E key \in ZippedKeys(Elements(proc.vars), args) : ~Hashable(key)
         THEN Raise(m, "TypeError", None)
    ELSE LET fr == Append(m.frames, Env(Elements(proc.vars), args, proc.env))
         IN  Call(Machine(m.stack, m.ret, m.err, fr, m.hooked),
                  [a EXCEPT !.pc = "tail"], EvalCall(proc.exp, Len(fr)))

\* proc(*args) (line 107)
Apply(m, a, proc, args) ==
    IF proc.k = "closure" THEN CallClosure(m, a, proc, args)
    ELSE IF proc.k = "builtin"
         THEN LET r == ApplyBuiltin(proc.n, args)
              IN  IF r.exc # NoErr THEN Raise(m, r.exc.kind, r.exc.arg) ELSE Return(m, r.val)
    ELSE Raise(m, "TypeError", None)

\* A dispatch that takes a keyword bound as a variable for an ordinary name
FormHead_Shadowed(fr, env, x) ==
    IF \E f \in 1..Len(fr) : Hashable(x.items[1]) /\ x.items[1] \in DOMAIN fr[f].vars
    THEN StrV(<<>>)
    ELSE x.items[1]

\* What the tests of lines 85-100 compare with the keywords: x[0], whatever
\* the frames hold
FormHead(fr, env, x) == x.items[1]

\* The dispatch of lines 81-107 on the expression of a new activation
EvalStart(m, a) ==
    LET x == a.x IN
    IF IsSymbol(x)                                                   \* line 81
    THEN Call(m, [a EXCEPT !.pc = "sym"], FindCall(a.env, x))
    ELSE IF ~IsList(x) THEN Return(m, x)                             \* line 83
    ELSE IF x.items = <<>> THEN Raise(m, "IndexError", None)         \* x[0]
    ELSE LET head == FormHead(m.frames, a.env, x)
             n    == Len(x.items)
         IN
         CASE head = Quote ->                                        \* line 85
                 IF n # 2 THEN Raise(m, "ValueError", None) ELSE Return(m, x.items[2])
           [] head = If ->                                           \* line 88
                 IF n # 4 THEN Raise(m, "ValueError", None)
                 ELSE Call(m, [a EXCEPT !.pc = "if"], EvalCall(x.items[2], a.env))
           [] head = SetBang ->                                      \* line 91
                 IF n # 3 THEN Raise(m, "ValueError", None)
                 ELSE Call(m, [a EXCEPT !.pc = "set_rhs"], EvalCall(x.items[3], a.env))
           [] head = Define ->                                       \* line 94
                 IF n # 3 THEN Raise(m, "ValueError", None)
                 ELSE Call(m, [a EXCEPT !.pc = "def_rhs"], EvalCall(x.items[3], a.env))
           [] head = Lambda ->                                       \* line 97
                 IF n # 3 THEN Raise(m, "ValueError", None)
                 ELSE Return(m, Closure(x.items[2], x.items[3], a.env))
           [] head = Begin ->                                        \* line 100
                 IF n = 1 THEN Raise(m, "UnboundLocalError", None)  \* val was never set
                 ELSE Call(m, [a EXCEPT !.pc = "begin", !.i = 2], EvalCall(BeginExp(x, 2), a.env))
           [] OTHER ->                                               \* line 104
                 Call(m, [a EXCEPT !.pc = "args", !.i = 1], EvalCall(ElementAt(x, 1), a.env))

\* One step of the innermost activation, an eval
eval(m) ==
    LET a == Top(m.stack)
        x == a.x
    IN
    CASE a.pc = "start" -> EvalStart(m, a)
         \* line 82: env.find(x) has returned the frame, which is read at x
      [] a.pc = "sym" -> Return(m, m.frames[m.ret.id].vars[x])
         \* line 90: the test has its value; one branch is evaluated
      [] a.pc = "if" ->
            Call(m, [a EXCEPT !.pc = "tail"],
                 EvalCall(IF Truthy(m.ret) THEN x.items[3] ELSE x.items[4], a.env))
         \* return eval(...): the value of the inner call is returned
      [] a.pc = "tail" -> Return(m, m.ret)
         \* line 93: the right-hand side has its value; env.find(var) is called
      [] a.pc = "set_rhs" ->
            Call(m, [a EXCEPT !.pc = "set_find", !.vals = <<m.ret>>], FindCall(a.env, x.items[2]))
         \* line 93: the frame found is assigned to; eval returns None
      [] a.pc = "set_find" ->
            Return(Machine(m.stack, m.ret, m.err,
                           Assign(m.frames, m.ret.id, x.items[2], a.vals[1]), m.hooked), None)
         \* line 96: env[var] is assigned; eval returns None
      [] a.pc = "def_rhs" ->
            IF ~Hashable(x.items[2]) THEN Raise(m, "TypeError", None)
            ELSE Return(Machine(m.stack, m.ret, m.err,
                                DefineIn(m.frames, a.env, x.items[2], m.ret), m.hooked), None)
         \* lines 101-103: the next expression, or the last value
      [] a.pc = "begin" ->
            IF a.i < Len(x.items)
            THEN Call(m, [a EXCEPT !.i = a.i + 1], EvalCall(BeginExp(x, a.i + 1), a.env))
            ELSE Return(m, m.ret)
         \* lines 105-107: the next element, or the call of the procedure
      [] a.pc = "args" ->
            LET vals == Append(a.vals, m.ret) IN
            IF a.i < Len(x.items)
            THEN Call(m, [a EXCEPT !.i = a.i + 1, !.vals = vals],
                      EvalCall(ElementAt(x, a.i + 1), a.env))
            ELSE Apply(m, [a EXCEPT !.vals = vals], Head(vals), Tail(vals))

----------------------------------------------------------------------------
(* Inputs *)

\* A closure called after the call that made its environment returned
\*   (define make-adder (lambda (n) (lambda (x) (+ x n)))) (define add5 (make-adder 5)) (add5 3)
LineAdder ==
    <<"(", "d", "e", "f", "i", "n", "e", " ", "m", "a", "k", "e", "-", "a",
      "d", "d", "e", "r", " ", "(", "l", "a", "m", "b", "d", "a", " ", "(",
      "n", ")", " ", "(", "l", "a", "m", "b", "d", "a", " ", "(", "x", ")",
      " ", "(", "+", " ", "x", " ", "n", ")", ")", ")", ")", " ", "(", "d",
      "e", "f", "i", "n", "e", " ", "a", "d", "d", "5", " ", "(", "m", "a",
      "k", "e", "-", "a", "d", "d", "e", "r", " ", "5", ")", ")", " ", "(",
      "a", "d", "d", "5", " ", "3", ")">>

\* set! of an outer variable from a lambda body
\*   (define x 1) ((lambda () (set! x 2))) x
LineSetOuter ==
    <<"(", "d", "e", "f", "i", "n", "e", " ", "x", " ", "1", ")", " ", "(",
      "(", "l", "a", "m", "b", "d", "a", " ", "(", ")", " ", "(", "s", "e",
      "t", "!", " ", "x", " ", "2", ")", ")", ")", " ", "x">>

\* define of an outer variable's name in a lambda body
\*   (define x 1) ((lambda () (define x 2))) x
LineDefineInner ==
    <<"(", "d", "e", "f", "i", "n", "e", " ", "x", " ", "1", ")", " ", "(",
      "(", "l", "a", "m", "b", "d", "a", " ", "(", ")", " ", "(", "d", "e",
      "f", "i", "n", "e", " ", "x", " ", "2", ")", ")", ")", " ", "x">>

\* define in a frame whose outer frame is a call frame binding the name
\*   ((lambda (y) ((lambda () (define y 2)))) 7)
LineDefineNested ==
    <<"(", "(", "l", "a", "m", "b", "d", "a", " ", "(", "y", ")", " ", "(",
      "(", "l", "a", "m", "b", "d", "a", " ", "(", ")", " ", "(", "d", "e",
      "f", "i", "n", "e", " ", "y", " ", "2", ")", ")", ")", ")", " ", "7",
      ")">>

\* set! of a parameter of the running lambda
\*   ((lambda (a) (begin (set! a 2) a)) 1)
LineSetLocal ==
    <<"(", "(", "l", "a", "m", "b", "d", "a", " ", "(", "a", ")", " ", "(",
      "b", "e", "g", "i", "n", " ", "(", "s", "e", "t", "!", " ", "a", " ",
      "2", ")", " ", "a", ")", ")", " ", "1", ")">>

\* set! of an unbound variable at top level
\*   (set! zz 1)
LineSetUnbound ==
    <<"(", "s", "e", "t", "!", " ", "z", "z", " ", "1", ")">>

\* set! of an unbound variable in a call frame
\*   ((lambda (a) (set! zz 1)) 1)
LineSetUnboundInner ==
    <<"(", "(", "l", "a", "m", "b", "d", "a", " ", "(", "a", ")", " ", "(",
      "s", "e", "t", "!", " ", "z", "z", " ", "1", ")", ")", " ", "1", ")">>

\* An unbound variable at top level
\*   zz
LineUnbound ==
    <<"z", "z">>

\* An unbound variable in a call frame
\*   ((lambda (a) zz) 1)
LineUnboundInner ==
    <<"(", "(", "l", "a", "m", "b", "d", "a", " ", "(", "a", ")", " ", "z",
      "z", ")", " ", "1", ")">>

\* An unbound variable two call frames deep
\*   ((lambda () ((lambda () zz))))
LineUnboundDeep ==
    <<"(", "(", "l", "a", "m", "b", "d", "a", " ", "(", ")", " ", "(", "(",
      "l", "a", "m", "b", "d", "a", " ", "(", ")", " ", "z", "z", ")", ")",
      ")", ")">>

\* Two expressions on one line
\*   (+ 1 2) (+ 3 4)
LineTwoSums ==
    <<"(", "+", " ", "1", " ", "2", ")", " ", "(", "+", " ", "3", " ", "4",
      ")">>

\* A closure called with fewer arguments than parameters
\*   ((lambda (a b) 7) 1)
LineFewArgs ==
    <<"(", "(", "l", "a", "m", "b", "d", "a", " ", "(", "a", " ", "b", ")",
      " ", "7", ")", " ", "1", ")">>

\* A closure called with more arguments than parameters
\*   ((lambda (a) a) 1 2)
LineManyArgs ==
    <<"(", "(", "l", "a", "m", "b", "d", "a", " ", "(", "a", ")", " ", "a",
      ")", " ", "1", " ", "2", ")">>

\* A closure called with as many arguments as parameters
\*   ((lambda (a) a) 1)
LineExactArgs ==
    <<"(", "(", "l", "a", "m", "b", "d", "a", " ", "(", "a", ")", " ", "a",
      ")", " ", "1", ")">>

\* A list left open
\*   (+ 1
LineOpen ==
    <<"(", "+", " ", "1">>

\* A closing parenthesis alone
\*   )
LineClose ==
    <<")">>

\* The lines main is given
Lines ==
    {LineAdder,
     LineSetOuter,
     LineDefineInner,
     LineDefineNested,
     LineSetLocal,
     LineSetUnbound,
     LineSetUnboundInner,
     LineUnbound,
     LineUnboundInner,
     LineUnboundDeep,
     LineTwoSums,
     LineFewArgs,
     LineManyArgs,
     LineExactArgs,
     LineOpen,
     LineClose}

\* The names and values the host gives add_global_var
HostVars == {Name(<<"z", "z">>)}

HostVals == {IntV(7)}

----------------------------------------------------------------------------
(* The host and the interactive driver (lines 158-174) *)

TheMachine == Machine(stack, ret, err, frames, hooked)

\* The machine m becomes the state; an exception leaves main, which no
\* handler but that of EOFError guards (lines 161-164)
Commit(m) ==
    /\ stack' = m.stack
    /\ ret' = m.ret
    /\ err' = m.err
    /\ frames' = m.frames
    /\ hooked' = m.hooked
    /\ pc' = IF m.err # NoErr THEN "crashed" ELSE pc

Init ==
    /\ pc = "host"
    /\ line = <<>>
    /\ tokens = <<>>
    /\ stack = <<>>
    /\ ret = None
    /\ err = NoErr
    /\ frames = <<add_globals>>
    /\ out = <<>>
    /\ hooked = <<>>
    /\ nlines = 0
    /\ ncalls = 0

\* The host calls add_global_var(var, val)
AddGlobalVar(var, val) ==
    /\ pc = "host"
    /\ ncalls < MaxHostCalls
    /\ frames' = add_global_var(frames, var, val)
    /\ ncalls' = ncalls + 1
    /\ UNCHANGED <<pc, line, tokens, stack, ret, err, out, hooked, nlines>>

\* The host calls set_err_handler(func)
SetErrHandler(func) ==
    /\ pc = "host"
    /\ ncalls < MaxHostCalls
    /\ frames' = set_err_handler(frames, func)
    /\ ncalls' = ncalls + 1
    /\ UNCHANGED <<pc, line, tokens, stack, ret, err, out, hooked, nlines>>

\* The host calls main()
RunMain ==
    /\ pc = "host"
    /\ pc' = "input"
    /\ UNCHANGED <<line, tokens, stack, ret, err, frames, out, hooked, nlines, ncalls>>

\* input(prompt) returns a line, which is tokenized (lines 162, 165)
Input(s) ==
    /\ pc = "input"
    /\ nlines < MaxLines
    /\ line' = s
    /\ tokens' = tokenize(s)
    /\ nlines' = nlines + 1
    /\ pc' = "loop"
    /\ UNCHANGED <<stack, ret, err, frames, out, hooked, ncalls>>

\* input(prompt) raises EOFError: main returns (lines 163-164)
EndOfInput ==
    /\ pc = "input"
    /\ pc' = "exited"
    /\ UNCHANGED <<line, tokens, stack, ret, err, frames, out, hooked, nlines, ncalls>>

\* The line's tokens are used up: the next line is read (line 168)
LineDone ==
    /\ pc = "loop"
    /\ Len(tokens) = 0
    /\ pc' = "input"
    /\ UNCHANGED <<line, tokens, stack, ret, err, frames, out, hooked, nlines, ncalls>>

\* expr = read_expr(tokens), then eval(expr) is called (lines 169, 172)
ReadEval ==
    /\ pc = "loop"
    /\ Len(tokens) > 0
    /\ LET r == read_expr(tokens) IN
       /\ tokens' = r.rest
       /\ IF r.exc # "none"
          THEN /\ err' = Exc(r.exc, None)
               /\ pc' = "crashed"
               /\ UNCHANGED <<stack, ret>>
          ELSE /\ stack' = <<EvalCall(r.val, global_env)>>
               /\ ret' = r.val
               /\ pc' = "eval"
               /\ UNCHANGED err
    /\ UNCHANGED <<line, frames, out, hooked, nlines, ncalls>>

\* A step of eval
EvalStep ==
    /\ pc = "eval"
    /\ stack # <<>>
    /\ Top(stack).fn = "eval"
    /\ Commit(eval(TheMachine))
    /\ UNCHANGED <<line, tokens, out, nlines, ncalls>>

\* A step of Env.find
FindStep ==
    /\ pc = "eval"
    /\ stack # <<>>
    /\ Top(stack).fn = "find"
    /\ Commit(find(TheMachine))
    /\ UNCHANGED <<line, tokens, out, nlines, ncalls>>

\* eval has returned val, which is printed unless it is None (lines 173-174)
Output ==
    /\ pc = "eval"
    /\ stack = <<>>
    /\ out' = IF ret # None THEN Append(out, to_string(ret)) ELSE out
    /\ pc' = "loop"
    /\ UNCHANGED <<line, tokens, stack, ret, err, frames, hooked, nlines, ncalls>>

\* The steps of an evaluation under way
Evaluation == EvalStep \/ FindStep \/ Output

\* The steps main takes by itself
Run == LineDone \/ ReadEval \/ Evaluation

Next ==
    \/ \E var \in HostVars, val \in HostVals : AddGlobalVar(var, val)
    \/ \E func \in Hooks : SetErrHandler(func)
    \/ RunMain
    \/ \E s \in Lines : Input(s)
    \/ EndOfInput
    \/ Run

Spec == Init /\ [][Next]_vars

\* The interpreter, a single thread, goes on with an evaluation it has begun
\* whenever it has a step to take; nothing obliges the host or the input to
\* act
FairSpec == Spec /\ WF_vars(Evaluation)

----------------------------------------------------------------------------
(* The driver on an arbitrary short line *)

\* The characters of the short texts
TextChars == {"(", ")", " ", "a", "1"}

RECURSIVE TextsOfLen(_)
TextsOfLen(n) ==
    IF n = 0 THEN {<<>>}
    ELSE {Append(t, c) : t \in TextsOfLen(n - 1), c \in TextChars}

\* Every text of at most MaxTextLen characters, and the lines above
Texts == UNION {TextsOfLen(n) : n \in 0..MaxTextLen} \cup Lines

\* main has read its first line s, any text, and tokenized it (line 165)
ReadInit ==
    /\ pc = "loop"
    /\ line \in Texts
    /\ tokens = tokenize(line)
    /\ stack = <<>>
    /\ ret = None
    /\ err = NoErr
    /\ frames = <<add_globals>>
    /\ out = <<>>
    /\ hooked = <<>>
    /\ nlines = 1
    /\ ncalls = 0

\* main works through that line
ReadSpec == ReadInit /\ [][Run]_vars

----------------------------------------------------------------------------
(* The host and the driver on the lines about the forms and the library *)

\* An if whose test is true and whose alternative is an unbound call
\*   (if 1 10 (zz))
LineIfTrue ==
    <<"(", "i", "f", " ", "1", " ", "1", "0", " ", "(", "z", "z", ")", ")">>

\* An if whose test is false and whose consequent is an unbound call
\*   (if 0 (zz) 20)
LineIfFalse ==
    <<"(", "i", "f", " ", "0", " ", "(", "z", "z", ")", " ", "2", "0", ")">>

\* ifs whose untaken branches define and assign
\*   (define x 1) (if 0 (define x 2) 3) (if x 4 (set! x 5)) x
LineIfEffect ==
    <<"(", "d", "e", "f", "i", "n", "e", " ", "x", " ", "1", ")", " ", "(",
      "i", "f", " ", "0", " ", "(", "d", "e", "f", "i", "n", "e", " ", "x",
      " ", "2", ")", " ", "3", ")", " ", "(", "i", "f", " ", "x", " ", "4",
      " ", "(", "s", "e", "t", "!", " ", "x", " ", "5", ")", ")", " ", "x">>

\* An application whose second element assigns the variable the others read
\*   (define x 1) (list x (begin (set! x 2) x) x)
LineArgsOrder ==
    <<"(", "d", "e", "f", "i", "n", "e", " ", "x", " ", "1", ")", " ", "(",
      "l", "i", "s", "t", " ", "x", " ", "(", "b", "e", "g", "i", "n", " ",
      "(", "s", "e", "t", "!", " ", "x", " ", "2", ")", " ", "x", ")", " ",
      "x", ")">>

\* An application whose operator assigns the variable its operand reads
\*   (define x 1) ((begin (set! x 2) list) x)
LineOperatorFirst ==
    <<"(", "d", "e", "f", "i", "n", "e", " ", "x", " ", "1", ")", " ", "(",
      "(", "b", "e", "g", "i", "n", " ", "(", "s", "e", "t", "!", " ", "x",
      " ", "2", ")", " ", "l", "i", "s", "t", ")", " ", "x", ")">>

\* car of the empty list
\*   (car (list))
LineCarEmpty ==
    <<"(", "c", "a", "r", " ", "(", "l", "i", "s", "t", ")", ")">>

\* cdr of the empty list
\*   (cdr (list))
LineCdrEmpty ==
    <<"(", "c", "d", "r", " ", "(", "l", "i", "s", "t", ")", ")">>

\* if bound as a variable in the global frame, then used as a form
\*   (define if 5) (if 1 10 20)
LineShadowIf ==
    <<"(", "d", "e", "f", "i", "n", "e", " ", "i", "f", " ", "5", ")", " ",
      "(", "i", "f", " ", "1", " ", "1", "0", " ", "2", "0", ")">>

\* set! bound as a variable in the global frame, then used as a form
\*   (define x 1) (define set! 5) (set! x 2) x
LineShadowSet ==
    <<"(", "d", "e", "f", "i", "n", "e", " ", "x", " ", "1", ")", " ", "(",
      "d", "e", "f", "i", "n", "e", " ", "s", "e", "t", "!", " ", "5", ")",
      " ", "(", "s", "e", "t", "!", " ", "x", " ", "2", ")", " ", "x">>

\* quote bound as a parameter in a call frame, then used as a form
\*   ((lambda (quote) (quote a)) 1)
LineShadowQuote ==
    <<"(", "(", "l", "a", "m", "b", "d", "a", " ", "(", "q", "u", "o", "t",
      "e", ")", " ", "(", "q", "u", "o", "t", "e", " ", "a", ")", ")", " ",
      "1", ")">>

\* A begin whose expressions define, assign and read a variable
\*   (begin (define y 1) (set! y (+ y 1)) y)
LineBegin ==
    <<"(", "b", "e", "g", "i", "n", " ", "(", "d", "e", "f", "i", "n", "e",
      " ", "y", " ", "1", ")", " ", "(", "s", "e", "t", "!", " ", "y", " ",
      "(", "+", " ", "y", " ", "1", ")", ")", " ", "y", ")">>

\* A begin of one expression
\*   (begin 5)
LineBeginOne ==
    <<"(", "b", "e", "g", "i", "n", " ", "5", ")">>

\* A global variable read in a call frame whose outer frame is an empty call frame
\*   ((lambda () ((lambda (a) car) 1)))
LineEmptyOuter ==
    <<"(", "(", "l", "a", "m", "b", "d", "a", " ", "(", ")", " ", "(", "(",
      "l", "a", "m", "b", "d", "a", " ", "(", "a", ")", " ", "c", "a", "r",
      ")", " ", "1", ")", ")", ")">>

\* A variable the host may have bound
\*   zz
LineGlobalName ==
    <<"z", "z">>

\* The lines about the forms and the library that main is given
FormLines ==
    {LineIfTrue,
     LineIfFalse,
     LineIfEffect,
     LineArgsOrder,
     LineOperatorFirst,
     LineCarEmpty,
     LineCdrEmpty,
     LineShadowIf,
     LineShadowSet,
     LineShadowQuote,
     LineBegin,
     LineBeginOne,
     LineEmptyOuter,
     LineGlobalName}

\* The names the host gives add_global_var before these lines: a variable,
\* a keyword and the name of a library procedure
FormHostVars == {Name(<<"z", "z">>), If, Name(<<"c", "a", "r">>)}

FormNext ==
    \/ \E var \in FormHostVars, val \in HostVals : AddGlobalVar(var, val)
    \/ \E func \in Hooks : SetErrHandler(func)
    \/ RunMain
    \/ \E s \in FormLines : Input(s)
    \/ EndOfInput
    \/ Run

FormSpec == Init /\ [][FormNext]_vars

----------------------------------------------------------------------------
(* The printer and the reader on an arbitrary small expression tree *)

\* The tokens of the trees' atoms: integers, negative, zero and of two
\* digits, and symbols
AtomTokens == {<<"-", "3">>, <<"0">>, <<"1", "2">>, <<"a">>, <<"+">>}

\* The atoms the reader makes of them (line 138)
Atoms == {atom(t) : t \in AtomTokens}

RECURSIVE TreesOfSize(_), Forests(_)
\* The expression trees of n atoms and lists: an atom or the empty list, or
\* a list of trees that have n - 1 atoms and lists together
TreesOfSize(n) ==
    IF n = 1 THEN Atoms \cup {ListV(<<>>)}
    ELSE {ListV(f) : f \in Forests(n - 1)}

\* The non-empty sequences of trees that have n atoms and lists together
Forests(n) ==
    UNION {{<<t>> \o f : t \in TreesOfSize(k),
                        f \in IF k = n THEN {<<>>} ELSE Forests(n - k)} : k \in 1..n}

Trees == UNION {TreesOfSize(n) : n \in 1..MaxTreeSize}

\* main holds a value val, any tree, that it is about to print (line 173)
PrintInit ==
    /\ pc = "print"
    /\ ret \in Trees
    /\ line = <<>>
    /\ tokens = <<>>
    /\ stack = <<>>
    /\ err = NoErr
    /\ frames = <<add_globals>>
    /\ out = <<>>
    /\ hooked = <<>>
    /\ nlines = 0
    /\ ncalls = 0

\* print(to_string(val)) (line 174)
PrintTree ==
    /\ pc = "print"
    /\ out' = Append(out, to_string(ret))
    /\ pc' = "printed"
    /\ UNCHANGED <<line, tokens, stack, ret, err, frames, hooked, nlines, ncalls>>

\* The printed text is given back as a line and read: read_expr(tokenize(s))
\* (lines 112-114, 165-169); the expression read is the one eval is to be
\* called with, val staying the value that was printed
Reread ==
    /\ pc = "printed"
    /\ line' = out[Len(out)]
    /\ LET r == parse(out[Len(out)]) IN
       /\ tokens' = r.rest
       /\ err' = IF r.exc # "none" THEN Exc(r.exc, None) ELSE NoErr
       /\ stack' = IF r.exc # "none" THEN <<>> ELSE <<EvalCall(r.val, global_env)>>
    /\ nlines' = nlines + 1
    /\ pc' = "reread"
    /\ UNCHANGED <<ret, frames, out, hooked, ncalls>>

PrintNext == PrintTree \/ Reread

PrintSpec == PrintInit /\ [][PrintNext]_vars

----------------------------------------------------------------------------
(* Properties *)

NameX == Name(<<"x">>)

NameZZ == Name(<<"z", "z">>)

\* main is evaluating an expression of the line s, rest being the tokens
\* after it
Evaluating(s, rest) == pc = "eval" /\ line = s /\ tokens = rest

\* main has evaluated the expressions of the line s up to the tokens rest
Evaluated(s, rest) == pc = "loop" /\ line = s /\ tokens = rest

\* main has evaluated every expression of the line s
Finished(s) == Evaluated(s, <<>>)

\* The line main printed last
LastOut == IF out = <<>> THEN <<>> ELSE out[Len(out)]

\* The innermost activation is an eval at the place p
EvalAt(p) ==
    /\ pc = "eval"
    /\ stack # <<>>
    /\ Top(stack).fn = "eval"
    /\ Top(stack).pc = p

RECURSIVE ChainOf(_, _)
\* The frames on the chain of outer links that starts at the frame f
ChainOf(fr, f) == IF f = 0 THEN {} ELSE {f} \cup ChainOf(fr, fr[f].outer)

\* Some frame on the chain from f binds var
BoundOnChain(fr, f, var) == \E g \in ChainOf(fr, f) : var \in DOMAIN fr[g].vars

\* No Env object has a recovery hook
NoHook == \A f \in 1..Len(frames) : frames[f].err_handler = "none"

\* An eval at the place p has just called env.find(var), from the frame env,
\* and no frame on the chain from env binds var
UnboundFindFrom(p, var) ==
    /\ pc = "eval"
    /\ Len(stack) >= 2
    /\ Top(stack) = FindCall(stack[Len(stack) - 1].env, var)
    /\ stack[Len(stack) - 1].fn = "eval"
    /\ stack[Len(stack) - 1].pc = p
    /\ ~BoundOnChain(frames, Top(stack).env, var)

\* The evaluation has ended with the unbound-variable error naming var
UnboundErrorFor(var) == pc = "crashed" /\ err = Exc("UnboundError", var)

\* The names of the model's texts that a lookup can find unbound
UnboundNames == {NameZZ, Name(<<"a">>)}

\* An activation of eval is at the assignment of a set! (line 93), its
\* right-hand side evaluated
InSetBang == \E i \in 1..Len(stack) : stack[i].fn = "eval" /\ stack[i].pc = "set_find"

\* The step binds no name that was not bound, in any frame
NoNewName ==
    /\ Len(frames') = Len(frames)
    /\ \A f \in 1..Len(frames) : DOMAIN frames'[f].vars = DOMAIN frames[f].vars

\* C1: a closure called after the call that created its environment has
\* returned evaluates its body with the free variables resolved in that
\* environment and returns the body's value: the evaluation of (add5 3),
\* the last expression of the make-adder line, ends and prints 8.
C1_AdderReturns8 ==
    Evaluating(LineAdder, <<>>) ~> (Finished(LineAdder) /\ LastOut = <<"8">>)

\* C2: (set! x v) in a lambda body, x being bound only in the outer frame,
\* changes the outer binding and binds nothing in the inner frame: the call
\* ((lambda () (set! x 2))) made after (define x 1) returns, and then x is 2
\* in the global frame and no call frame binds x.
C2_SetReachesOuter ==
    Evaluating(LineSetOuter, <<<<"x">>>>) ~>
        /\ Evaluated(LineSetOuter, <<<<"x">>>>)
        /\ NameX \in DOMAIN frames[global_env].vars
        /\ frames[global_env].vars[NameX] = IntV(2)
        /\ \A f \in 2..Len(frames) : NameX \notin DOMAIN frames[f].vars

\* The step of line 96, env[var] = eval(exp, env), binds var to the value in
\* the frame env and changes nothing else of any frame
DefineEffect ==
    EvalAt("def_rhs") =>
        LET env == Top(stack).env
            var == Top(stack).x.items[2]
        IN  /\ Len(frames') = Len(frames)
            /\ \A f \in 1..Len(frames) : f # env => frames'[f] = frames[f]
            /\ frames'[env].outer = frames[env].outer
            /\ DOMAIN frames'[env].vars = DOMAIN frames[env].vars \cup {var}
            /\ frames'[env].vars[var] = ret
            /\ \A key \in DOMAIN frames[env].vars :
                  key # var => frames'[env].vars[key] = frames[env].vars[key]

\* C3: (define x v) binds x in the innermost frame only and leaves every
\* binding of every other frame as it was, an outer binding of x included;
\* after (define x 1) and a lambda call that does (define x 2), x reads 1 at
\* top level.
C3_DefineInnermostOnly ==
    /\ [][DefineEffect]_vars
    /\ [](Finished(LineDefineInner) =>
            /\ frames[global_env].vars[NameX] = IntV(1)
            /\ LastOut = <<"1">>)

\* C3's case: the lambda's frame binds x to 2 while the global x is still 1
C3_Witness ==
    /\ Finished(LineDefineInner)
    /\ LastOut = <<"1">>
    /\ \E f \in 2..Len(frames) :
          /\ frames[f].outer = global_env
          /\ NameX \in DOMAIN frames[f].vars
          /\ frames[f].vars[NameX] = IntV(2)
          /\ frames[global_env].vars[NameX] = IntV(1)

\* C4: with no recovery hook, (set! x v) evaluated in any frame, x being
\* bound in no frame on the chain, ends with the unbound-variable error for
\* x and binds x nowhere; the assignment of a set! never adds a name to a
\* frame, and with no hook no step of a set! does.
C4_SetUnboundFails ==
    /\ [][EvalAt("set_find") => NoNewName]_vars
    /\ [][(NoHook /\ InSetBang) => NoNewName]_vars
    /\ \A var \in UnboundNames :
          (NoHook /\ UnboundFindFrom("set_find", var)) ~>
              /\ UnboundErrorFor(var)
              /\ \A f \in 1..Len(frames) : var \notin DOMAIN frames[f].vars

\* C4's case: a set! of the unbound zz in a call frame has failed
C4_Witness ==
    /\ NoHook
    /\ line = LineSetUnboundInner
    /\ UnboundErrorFor(NameZZ)
    /\ Len(frames) >= 2
    /\ \A f \in 1..Len(frames) : NameZZ \notin DOMAIN frames[f].vars

\* C5: with no recovery hook, the lookup of a symbol that no frame on the
\* chain binds, begun at the global frame or at a call frame, raises the
\* unbound-variable error that carries that symbol's name.
C5_UnboundLookupRaises ==
    \A var \in UnboundNames :
        (NoHook /\ UnboundFindFrom("sym", var)) ~> UnboundErrorFor(var)

\* C5's case: the lookup of zz begun two call frames deep has failed
C5_Witness ==
    /\ NoHook
    /\ line = LineUnboundDeep
    /\ UnboundErrorFor(NameZZ)
    /\ Len(frames) >= 3

\* C6: with a hook installed that binds the missing symbol in the global
\* environment, a lookup that fails on the whole chain calls the hook, is
\* tried again, and the expression evaluates to the value the hook bound,
\* whether the lookup begins at the global frame or at a call frame.
C6_HookRetrySucceeds ==
    \A s \in {LineUnbound, LineUnboundInner} :
        (/\ Evaluating(s, <<>>)
         /\ frames[global_env].err_handler = "bind"
         /\ NameZZ \notin DOMAIN frames[global_env].vars) ~>
            (Finished(s) /\ LastOut = to_string(HookValue) /\ hooked # <<>>)

\* The open parentheses less the closing ones among the first i tokens
Depth(toks, i) ==
    Cardinality({j \in 1..i : toks[j] = <<"(">>}) - Cardinality({j \in 1..i : toks[j] = <<")">>})

\* The tokens begin a list that they do not close
Unclosed(toks) ==
    /\ Len(toks) > 0
    /\ toks[1] = <<"(">>
    /\ \A i \in 1..Len(toks) : Depth(toks, i) > 0

\* The tokens begin with a whole expression: an atom, or a list that is
\* closed
HasExpr(toks) ==
    /\ Len(toks) > 0
    /\ toks[1] # <<")">>
    /\ toks[1] = <<"(">> => \E i \in 1..Len(toks) : Depth(toks, i) = 0

\* The number of tokens of the expression the tokens begin with
ExprEnd(toks) ==
    IF toks[1] # <<"(">> THEN 1
    ELSE CHOOSE i \in 1..Len(toks) :
            /\ Depth(toks, i) = 0
            /\ \A j \in 1..(i - 1) : Depth(toks, j) > 0

\* main calls read_expr on its tokens (line 169)
ReadReady == pc = "loop" /\ Len(tokens) > 0

\* C7: read_expr fails with a SyntaxError, and with no other error, when the
\* tokens run out while a list is open.
C7_OpenListIsSyntaxError ==
    [][(ReadReady /\ Unclosed(tokens)) => (pc' = "crashed" /\ err'.kind = "SyntaxError")]_vars

\* A successful read_expr: the tokens began with a whole expression, whose
\* tokens are taken off the front, the others staying as they were; the
\* value returned is that expression
ReadEffect ==
    (ReadReady /\ pc' = "eval") =>
        /\ HasExpr(tokens)
        /\ tokens' = SubSeq(tokens, ExprEnd(tokens) + 1, Len(tokens))
        /\ tokenize(to_string(ret')) = SubSeq(tokens, 1, ExprEnd(tokens))

\* C8: a successful read_expr takes from the front of the tokens exactly
\* those of one balanced top-level expression and leaves the others in
\* order, so that main gets the expressions of a line one by one in source
\* order: the two of "(+ 1 2) (+ 3 4)" evaluate to 3 and 7.
C8_ReadTakesOneExpression ==
    /\ [][ReadEffect]_vars
    /\ [](Finished(LineTwoSums) => out = <<<<"3">>, <<"7">>>>)

\* C8's case: both expressions of the line were read and evaluated
C8_Witness ==
    /\ Finished(LineTwoSums)
    /\ out = <<<<"3">>, <<"7">>>>

\* The innermost eval has evaluated every element of an application and
\* calls a closure with argument values that are not as many as its
\* parameters (line 107)
ArityMismatch ==
    /\ EvalAt("args")
    /\ Top(stack).i = Len(Top(stack).x.items)
    /\ LET vals == Append(Top(stack).vals, ret)
       IN  /\ Head(vals).k = "closure"
           /\ Iterable(Head(vals).vars)
           /\ Len(Elements(Head(vals).vars)) # Len(Tail(vals))

\* C9: a call of a closure with fewer or more arguments than parameters is a
\* fatal arity error: it creates no frame, evaluates no body and returns no
\* value.
C9_ArityMismatchIsFatal ==
    [][ArityMismatch => (err' # NoErr /\ frames' = frames)]_vars

\* The errors of the language: of syntax, of an unbound variable, of arity
\* or type
LanguageErrors == {"SyntaxError", "UnboundError", "TypeError"}

\* C10: in main a language-level error raised while an expression is read or
\* evaluated ends that expression only: main goes on to read the next line,
\* and ends at the end of the input only.
C10_ErrorEndsExpressionOnly ==
    [][(err = NoErr /\ err' # NoErr /\ err'.kind \in LanguageErrors) => pc' = "input"]_vars

----------------------------------------------------------------------------
(* Properties of the forms and the library *)

\* The call (zz), which no frame of the lines with an if can evaluate
CallZZ == ListV(<<NameZZ>>)

\* Some activation of eval has the expression e
IsEvaluated(e) == \E i \in 1..Len(stack) : stack[i].fn = "eval" /\ stack[i].x = e

\* The innermost activation is the eval of a list headed by the name head,
\* at the place p
FormAt(head, p) ==
    /\ EvalAt(p)
    /\ IsList(Top(stack).x)
    /\ Top(stack).x.items # <<>>
    /\ Top(stack).x.items[1] = head

\* The step of line 90 once the test has its value: the eval of the taken
\* branch, and of no other expression, is called in the same environment,
\* and no frame changes
IfBranchEffect ==
    FormAt(If, "if") =>
        LET a     == Top(stack)
            taken == IF Truthy(ret) THEN a.x.items[3] ELSE a.x.items[4]
        IN  /\ frames' = frames
            /\ err' = NoErr
            /\ Len(stack') = Len(stack) + 1
            /\ Top(stack') = EvalCall(taken, a.env)
            /\ stack'[Len(stack)].pc = "tail"

\* The step of line 90 once the branch has its value: the if returns it and
\* evaluates nothing more
IfReturnEffect ==
    FormAt(If, "tail") =>
        /\ stack' = Pop(stack)
        /\ ret' = ret
        /\ frames' = frames
        /\ err' = NoErr

\* C11: (if test conseq alt) evaluates test once and then exactly one branch,
\* conseq when the test is true and alt otherwise; no error and no effect of
\* the other branch occurs: (if 1 10 (zz)) returns 10 and (if 0 (zz) 20)
\* returns 20 with no unbound-variable error, and a define or set! in the
\* branch not taken leaves the variable as it was.
C11_IfEvaluatesOneBranch ==
    /\ [][IfBranchEffect]_vars
    /\ [][IfReturnEffect]_vars
    /\ [](line \in {LineIfTrue, LineIfFalse, LineIfEffect} => pc # "crashed")
    /\ [](line \in {LineIfTrue, LineIfFalse} => ~IsEvaluated(CallZZ))
    /\ [](Finished(LineIfTrue) => LastOut = <<"1", "0">>)
    /\ [](Finished(LineIfFalse) => LastOut = <<"2", "0">>)
    /\ [](Finished(LineIfEffect) =>
            /\ Len(out) >= 3
            /\ SubSeq(out, Len(out) - 2, Len(out)) = <<<<"3">>, <<"4">>, <<"1">>>>
            /\ frames[global_env].vars[NameX] = IntV(1))

\* C11's case: (if 1 10 (zz)) has returned 10 while zz is unbound
C11_Witness ==
    /\ Finished(LineIfTrue)
    /\ LastOut = <<"1", "0">>
    /\ NameZZ \notin DOMAIN frames[global_env].vars

\* The names that head the special forms (lines 85-100)
Keywords ==
    {Name(<<"q", "u", "o", "t", "e">>), Name(<<"i", "f">>), Name(<<"s", "e", "t", "!">>),
     Name(<<"d", "e", "f", "i", "n", "e">>), Name(<<"l", "a", "m", "b", "d", "a">>),
     Name(<<"b", "e", "g", "i", "n">>)}

\* The expression is a generic application: a list with a head that is no
\* keyword
IsApplication(x) == IsList(x) /\ x.items # <<>> /\ x.items[1] \notin Keywords

\* The innermost activation is the eval of a generic application at the
\* place p
ApplicationAt(p) == EvalAt(p) /\ IsApplication(Top(stack).x)

\* An eval that has evaluated the elements up to the i-th of an application
\* holds the values of those before the i-th, that of the i-th being the one
\* just returned
ArgsProgress ==
    \A k \in 1..Len(stack) :
        (stack[k].fn = "eval" /\ stack[k].pc = "args") =>
            /\ IsApplication(stack[k].x)
            /\ stack[k].i \in 1..Len(stack[k].x.items)
            /\ Len(stack[k].vals) = stack[k].i - 1

\* The first step on an application evaluates its operator, the first
\* element
OperatorFirst ==
    ApplicationAt("start") =>
        LET a == Top(stack) IN
        /\ Len(stack') = Len(stack) + 1
        /\ Top(stack') = EvalCall(a.x.items[1], a.env)
        /\ stack'[Len(stack)] = [a EXCEPT !.pc = "args", !.i = 1]
        /\ frames' = frames

\* While an element is left, the step after the i-th element's evaluation
\* keeps its value after those of the elements before it and evaluates the
\* next element, in the same environment; it calls no procedure
NextOperand ==
    (ApplicationAt("args") /\ Top(stack).i < Len(Top(stack).x.items)) =>
        LET a == Top(stack) IN
        /\ Len(stack') = Len(stack) + 1
        /\ Top(stack') = EvalCall(a.x.items[a.i + 1], a.env)
        /\ stack'[Len(stack)] = [a EXCEPT !.i = a.i + 1, !.vals = Append(a.vals, ret)]
        /\ frames' = frames

\* When no element is left the first value is called with the others, in
\* their order: a built-in returns its result, a closure gets its frame
Invocation ==
    (ApplicationAt("args") /\ Top(stack).i = Len(Top(stack).x.items)) =>
        LET a    == Top(stack)
            vals == Append(a.vals, ret)
            proc == Head(vals)
        IN  /\ proc.k = "builtin" =>
                  LET r == ApplyBuiltin(proc.n, Tail(vals))
                  IN  IF r.exc # NoErr THEN err' = r.exc
                      ELSE stack' = Pop(stack) /\ ret' = r.val /\ err' = NoErr
            /\ (proc.k = "closure" /\ err' = NoErr) =>
                  /\ Len(frames') = Len(frames) + 1
                  /\ frames'[Len(frames')] = Env(Elements(proc.vars), Tail(vals), proc.env)
                  /\ Top(stack') = EvalCall(proc.exp, Len(frames'))
            /\ proc.k \notin {"builtin", "closure"} => err' # NoErr

\* C12: in a generic application every element is evaluated once, from the
\* first to the last, the operator first, and the procedure is called only
\* when all have their values; what an earlier element assigns is seen by
\* the later ones: after (define x 1), (list x (begin (set! x 2) x) x) is
\* (1 2 2) and ((begin (set! x 2) list) x) is (2).
C12_ApplicationLeftToRight ==
    /\ []ArgsProgress
    /\ [][OperatorFirst]_vars
    /\ [][NextOperand]_vars
    /\ [][Invocation]_vars
    /\ [](Finished(LineArgsOrder) => LastOut = <<"(", "1", " ", "2", " ", "2", ")">>)
    /\ [](Finished(LineOperatorFirst) => LastOut = <<"(", "2", ")">>)

\* C12's case: the application whose second element assigns x has returned
\* the list of its operands' values
C12_Witness ==
    /\ Finished(LineArgsOrder)
    /\ LastOut = <<"(", "1", " ", "2", " ", "2", ")">>
    /\ frames[global_env].vars[NameX] = IntV(2)

\* The innermost eval has evaluated every element of an application and
\* calls the built-in procedure n with the empty list as its one argument
\* (line 107)
EmptyListCall(n) ==
    /\ ApplicationAt("args")
    /\ Top(stack).i = Len(Top(stack).x.items)
    /\ Append(Top(stack).vals, ret) = <<Builtin(n), ListV(<<>>)>>

\* C13: car and cdr applied to the empty list both fail with an indexing
\* error, and neither returns a value.
C13_CarCdrOfEmptyFail ==
    [][(EmptyListCall("car") \/ EmptyListCall("cdr")) =>
          (pc' = "crashed" /\ err'.kind = "IndexError")]_vars

\* C14: for every expression tree e of integer and symbol atoms and nested
\* lists, the empty list included, reading the tokens of the text
\* to_string(e) gives a tree equal to e and leaves no token.
C14_PrintReadRoundTrip ==
    pc = "reread" =>
        /\ line = to_string(ret)
        /\ err = NoErr
        /\ stack = <<EvalCall(ret, global_env)>>
        /\ tokens = <<>>

\* C14's case: a list that holds a negative number, a symbol and the empty
\* list was printed and read back
C14_Witness ==
    /\ pc = "reread"
    /\ ret = ListV(<<IntV(-3), StrV(<<"a">>), ListV(<<>>)>>)
    /\ line = <<"(", "-", "3", " ", "a", " ", "(", ")", ")">>
    /\ stack = <<EvalCall(ret, global_env)>>

\* The step binds var to val in the global frame and changes nothing else:
\* no other global binding, no binding of a call frame, no recovery hook
GlobalVarEffect(var, val) ==
    /\ Len(frames') = Len(frames)
    /\ \A f \in 2..Len(frames) : frames'[f] = frames[f]
    /\ frames'[global_env].err_handler = frames[global_env].err_handler
    /\ frames'[global_env].outer = frames[global_env].outer
    /\ DOMAIN frames'[global_env].vars = DOMAIN frames[global_env].vars \cup {var}
    /\ frames'[global_env].vars[var] = val
    /\ \A key \in DOMAIN frames[global_env].vars :
          key # var => frames'[global_env].vars[key] = frames[global_env].vars[key]

\* The innermost activation, a find, calls the hook that binds the missing
\* variable with add_global_var (line 29)
BindHookCall ==
    /\ pc = "eval"
    /\ stack # <<>>
    /\ Top(stack).fn = "find"
    /\ Top(stack).pc = "loop"
    /\ frames[Top(stack).env].err_handler = "bind"
    /\ hooked' # hooked

\* C15: add_global_var(name, value) binds name to value in the global
\* environment, new or bound before, and leaves every other global binding,
\* every call frame and the recovery hook as they were, whether the host
\* calls it or a hook does; the symbol evaluated at top level afterwards is
\* that value.
C15_AddGlobalVarEffect ==
    /\ [][\A var \in FormHostVars, val \in HostVals :
              AddGlobalVar(var, val) => GlobalVarEffect(var, val)]_vars
    /\ [][BindHookCall => GlobalVarEffect(Top(stack).x, HookValue)]_vars
    /\ [](Finished(LineGlobalName) =>
            /\ NameZZ \in DOMAIN frames[global_env].vars
            /\ LastOut = to_string(frames[global_env].vars[NameZZ]))

\* C15's case: the host bound zz to 7 and main evaluated zz after a line
\* that made a call frame
C15_Witness ==
    /\ Finished(LineGlobalName)
    /\ hooked = <<>>
    /\ Len(frames) >= 2
    /\ frames[global_env].vars[NameZZ] = IntV(7)
    /\ LastOut = <<"7">>

\* The hook of the global frame returns without binding anything
IdleHook == frames[global_env].err_handler = "noop"

\* C16: for one failed lookup the recovery hook is called once; when it
\* returns without binding the variable the lookup ends with the
\* unbound-variable error: the hook is not called again and the lookup does
\* not go on for ever.
C16_HookOnceThenPropagate ==
    /\ [](IdleHook => Len(hooked) <= 1)
    /\ \A var \in UnboundNames :
          (IdleHook /\ UnboundFindFrom("sym", var)) ~> UnboundErrorFor(var)

\* The innermost activation is a new eval of a list headed by the keyword
\* written kw, with n elements
KeywordForm(kw, n) ==
    /\ EvalAt("start")
    /\ IsList(Top(stack).x)
    /\ Len(Top(stack).x.items) = n
    /\ Top(stack).x.items[1] = Name(kw)

\* The step returns v from the innermost activation and changes no frame
Returns(v) == stack' = Pop(stack) /\ ret' = v /\ frames' = frames /\ err' = NoErr

\* The step moves the innermost activation to the place p and calls the
\* eval of e in the same environment; it looks nothing up and changes no
\* frame
Evaluates(p, e) ==
    /\ Len(stack') = Len(stack) + 1
    /\ stack'[Len(stack)].pc = p
    /\ Top(stack') = EvalCall(e, Top(stack).env)
    /\ frames' = frames
    /\ err' = NoErr

\* The first step on a list headed by a keyword is that of the keyword's
\* rule (lines 85-103), whatever the frames bind
KeywordRule ==
    LET x == Top(stack).x IN
    /\ KeywordForm(<<"q", "u", "o", "t", "e">>, 2) => Returns(x.items[2])
    /\ KeywordForm(<<"i", "f">>, 4) => Evaluates("if", x.items[2])
    /\ KeywordForm(<<"s", "e", "t", "!">>, 3) => Evaluates("set_rhs", x.items[3])
    /\ KeywordForm(<<"d", "e", "f", "i", "n", "e">>, 3) => Evaluates("def_rhs", x.items[3])
    /\ KeywordForm(<<"l", "a", "m", "b", "d", "a">>, 3) =>
          Returns(Closure(x.items[2], x.items[3], Top(stack).env))
    /\ \A n \in 2..4 : KeywordForm(<<"b", "e", "g", "i", "n">>, n) => Evaluates("begin", x.items[2])

\* C17: the dispatch on a special form looks at the head symbol only: when
\* define, set! or add_global_var has bound a keyword as a variable, in the
\* global frame or a call frame, a list headed by it is still evaluated by
\* the keyword's rule and the binding is not looked up.  With if bound,
\* (if 1 10 20) is 10; with set! bound, (set! x 2) assigns; with quote a
\* parameter, (quote a) is a.
C17_DispatchIgnoresBindings ==
    /\ [][KeywordRule]_vars
    /\ [](Finished(LineShadowIf) => LastOut = <<"1", "0">>)
    /\ [](Finished(LineShadowSet) => LastOut = <<"2">>)
    /\ [](Finished(LineShadowQuote) => LastOut = <<"a">>)
    /\ [](Finished(LineIfTrue) => LastOut = <<"1", "0">>)

\* C17's case: (if 1 10 20) has returned 10 while the global frame binds if
\* to 5
C17_Witness ==
    /\ Finished(LineShadowIf)
    /\ LastOut = <<"1", "0">>
    /\ Name(<<"i", "f">>) \in DOMAIN frames[global_env].vars
    /\ frames[global_env].vars[Name(<<"i", "f">>)] = IntV(5)

\* An eval inside a begin of n expressions is at one of them, from the
\* first to the n-th
BeginProgress ==
    \A k \in 1..Len(stack) :
        (stack[k].fn = "eval" /\ stack[k].pc = "begin") =>
            /\ stack[k].x.items[1] = Begin
            /\ stack[k].i \in 2..Len(stack[k].x.items)

\* The first step on a begin evaluates its first expression
BeginFirst ==
    (FormAt(Begin, "start") /\ Len(Top(stack).x.items) >= 2) =>
        /\ Evaluates("begin", Top(stack).x.items[2])
        /\ stack'[Len(stack)].i = 2

\* While an expression is left, the step after an expression's evaluation
\* evaluates the next one in the same environment
BeginNext ==
    (FormAt(Begin, "begin") /\ Top(stack).i < Len(Top(stack).x.items)) =>
        /\ Evaluates("begin", Top(stack).x.items[Top(stack).i + 1])
        /\ stack'[Len(stack)].i = Top(stack).i + 1

\* When none is left the begin returns the value of the last one
BeginReturn ==
    (FormAt(Begin, "begin") /\ Top(stack).i = Len(Top(stack).x.items)) => Returns(ret)

\* C18: (begin e1 ... en), n >= 1, evaluates e1 to en once each, in order
\* and in the current environment, and returns the value of en; what ei
\* defines or assigns is seen by the later ones:
\* (begin (define y 1) (set! y (+ y 1)) y) is 2, and (begin 5) is 5.
C18_BeginInOrder ==
    /\ []BeginProgress
    /\ [][BeginFirst]_vars
    /\ [][BeginNext]_vars
    /\ [][BeginReturn]_vars
    /\ [](Finished(LineBegin) => LastOut = <<"2">>)
    /\ [](Finished(LineBeginOne) => LastOut = <<"5">>)

\* C18's case: the begin that defines y, adds 1 to it and reads it has
\* returned 2
C18_Witness ==
    /\ Finished(LineBegin)
    /\ LastOut = <<"2">>
    /\ frames[global_env].vars[Name(<<"y">>)] = IntV(2)

\* A call of Env.find is under way: find calls nothing but find and the
\* hook, so the innermost activation is a find as long as the call that an
\* eval made has not ended
FindActive == pc = "eval" /\ stack # <<>> /\ Top(stack).fn = "find"

\* C19: with no recovery hook Env.find ends for every variable and every
\* chain of frames, from any frame: it returns a frame or raises the
\* unbound-variable error, also when the variable is bound in an outer frame
\* only.
C19_FindTerminates == (NoHook /\ FindActive) ~> ~FindActive

\* C20: a lookup goes on into the enclosing frame whenever there is one,
\* whatever that frame holds: a variable that the global frame binds is
\* found from a frame whose outer frame is empty, and is never reported
\* unbound.
C20_LookupPassesEmptyFrame ==
    (pc = "crashed" /\ err.kind = "UnboundError") =>
        err.arg \notin DOMAIN frames[global_env].vars

====
